---------------------------- MODULE Spec2Model ----------------------------
(***************************************************************************)
(* The WebM muxer of src/unnamed/part_008 (imported by the exporter as     *)
(* "@/lib/whammy"): encodeVint, encodeElement, concatArrays,               *)
(* extractVP8Bitstream, createSimpleBlock, createWebM and fromImageArray.  *)
(*                                                                         *)
(* Numbers.  A JavaScript number that holds a byte length can be as large  *)
(* as 2^53 - 1, which is more than a model value can hold, so a length or  *)
(* a vint value is a pair <<hi, lo>> standing for hi * 2^28 + lo, with     *)
(* 0 <= lo < 2^28.  The 32-bit bitwise operators of the source (&, |, <<,  *)
(* >>) first convert their operand with ToInt32; after that conversion the *)
(* value is a plain integer of the model.                                  *)
(*                                                                         *)
(* Buffers.  A Uint8Array is a sequence of integers.  An entry 0..255 is   *)
(* one byte; a negative entry -n abbreviates n consecutive zero bytes, so  *)
(* that buffers of 2^30 bytes and more can be written down.                *)
(***************************************************************************)
EXTENDS Integers, Sequences, FiniteSets, TLC

\* ------------------------------------------------------------- numbers

Base == 2^28

NumOf(n) == << n \div Base, n % Base >>

NumAdd(a, b) ==
    LET s == a[2] + b[2]
    IN  << a[1] + b[1] + (s \div Base), s % Base >>

NumGE(a, b) == a[1] > b[1] \/ (a[1] = b[1] /\ a[2] >= b[2])

\* a - b for a >= b
NumSub(a, b) ==
    IF a[2] >= b[2] THEN << a[1] - b[1], a[2] - b[2] >>
    ELSE << a[1] - b[1] - 1, a[2] + Base - b[2] >>

NumMin(a, b) == IF NumGE(a, b) THEN b ELSE a

\* Math.pow(2, e) - 1 for 0 <= e <= 56 (for e = 56 the double is 2^56; no
\* number that holds an integer exactly lies between the two)
Pow2Minus1(e) ==
    << 2^(IF e > 28 THEN e - 28 ELSE 0) - 1, 2^(IF e > 28 THEN 28 ELSE e) - 1 >>

\* ToInt32 of a non-negative number: its low 32 bits read as two's complement
ToInt32(a) ==
    LET h == a[1] % 16
    IN  IF h >= 8 THEN (h - 16) * Base + a[2] ELSE h * Base + a[2]

\* b | m for a byte b and a single bit m
BitOr(b, m) == IF (b \div m) % 2 = 1 THEN b ELSE b + m

\* The running timecode and the durations are held as integers, with two
\* values for the numbers that are none: Infinity, which 1000 / fps is for an
\* fps so small that the quotient exceeds the largest number, and NaN.
Infinity == -1
NaN == -2

\* a + b, where a and b are finite and not negative, or Infinity
Plus(a, b) == IF a = Infinity \/ b = Infinity THEN Infinity ELSE a + b

\* a * n for a finite and not negative, or Infinity, and a count n:
\* Infinity * 0 is NaN
Times(a, n) ==
    IF a = Infinity THEN (IF n = 0 THEN NaN ELSE Infinity) ELSE a * n

\* A timecode that is held at 32767, the largest value of the signed field,
\* once it would exceed it.  The code has no such guard; C21 tells the two
\* apart.
TimecodeBitsSaturated(t) ==
    IF t = Infinity THEN 0 ELSE IF t > 32767 THEN 32767 ELSE t

\* ToInt32 of a timecode, the operand of >> and &: Infinity becomes 0
TimecodeBits(t) == IF t = Infinity THEN 0 ELSE t

\* ------------------------------------------------------------- buffers

IsRun(x) == x < 0

ItemLen(x) == IF x < 0 THEN -x ELSE 1

\* the bytes the runs at the indices js stand for
RECURSIVE SumRuns(_, _)
SumRuns(buf, js) ==
    IF js = {} THEN <<0, 0>>
    ELSE LET j == CHOOSE k \in js : TRUE
         IN  NumAdd(NumOf(-buf[j]), SumRuns(buf, js \ {j}))

\* arr.length
ByteLength(buf) ==
    NumAdd(NumOf(Cardinality({j \in DOMAIN buf : buf[j] >= 0})),
           SumRuns(buf, {j \in DOMAIN buf : buf[j] < 0}))

RECURSIVE Flatten(_)
Flatten(arrays) ==
    IF arrays = <<>> THEN <<>> ELSE Head(arrays) \o Flatten(Tail(arrays))

\* ------------------------------------------------------------- uintToArray

RECURSIVE uintToArray(_, _)
uintToArray(value, bytes) ==
    IF bytes = 0 THEN <<>>
    ELSE uintToArray(value \div 256, bytes - 1) \o << value % 256 >>

\* ------------------------------------------------------------- encodeVint

\* A length loop that compares with > where the code compares with >=, so
\* that 2^(7 length) - 1 itself still takes the shorter length.  C14 tells
\* the two apart.
RECURSIVE vintLengthStrict(_, _)
vintLengthStrict(value, length) ==
    IF value # Pow2Minus1(7 * length) /\ NumGE(value, Pow2Minus1(7 * length))
       /\ length < 8
    THEN vintLengthStrict(value, length + 1)
    ELSE length

RECURSIVE vintLength(_, _)
vintLength(value, length) ==
    IF NumGE(value, Pow2Minus1(7 * length)) /\ length < 8
    THEN vintLength(value, length + 1)
    ELSE length

RECURSIVE vintFill(_, _)
vintFill(value, n) ==
    IF n = 0 THEN <<>>
    ELSE vintFill(value \div 256, n - 1) \o << value % 256 >>

\* An encoder that sets the marker one bit too low, 1 << (7 - length) where
\* the code has 1 << (8 - length).  C16 tells the two apart.
encodeVintLowMarker(value) ==
    LET length == vintLength(value, 1)
        buffer == vintFill(ToInt32(value), length)
    IN  << BitOr(buffer[1], 2^(7 - length)) >> \o Tail(buffer)

encodeVint(value) ==
    LET length == vintLength(value, 1)
        buffer == vintFill(ToInt32(value), length)
    IN  << BitOr(buffer[1], 2^(8 - length)) >> \o Tail(buffer)

\* ------------------------------------------------------------- encodeElement

encodeElement(id, data) == id \o encodeVint(ByteLength(data)) \o data

concatArrays(arrays) == Flatten(arrays)

\* ------------------------------------------------------------- subarray

\* a number plus a 32-bit integer; the sum can be negative
AddInt32(a, s) ==
    IF s >= 0 THEN [neg |-> FALSE, mag |-> NumAdd(a, NumOf(s))]
    ELSE LET m == NumAdd(NumOf(-(s + 1)), <<0, 1>>)
         IN  IF NumGE(a, m) THEN [neg |-> FALSE, mag |-> NumSub(a, m)]
             ELSE [neg |-> TRUE, mag |-> NumSub(m, a)]

RECURSIVE DropBytes(_, _)
DropBytes(buf, n) ==
    IF n = <<0, 0>> \/ buf = <<>> THEN buf
    ELSE LET h == NumOf(ItemLen(buf[1]))
         IN  IF NumGE(n, h) THEN DropBytes(Tail(buf), NumSub(n, h))
             ELSE << buf[1] + (n[1] * Base + n[2]) >> \o Tail(buf)

RECURSIVE TakeBytes(_, _)
TakeBytes(buf, n) ==
    IF n = <<0, 0>> \/ buf = <<>> THEN <<>>
    ELSE LET h == NumOf(ItemLen(buf[1]))
         IN  IF NumGE(n, h) THEN << buf[1] >> \o TakeBytes(Tail(buf), NumSub(n, h))
             ELSE << -(n[1] * Base + n[2]) >>

\* TypedArray.prototype.subarray(begin, end) for begin >= 0: a negative end
\* counts from the end of the array, both indices are clamped to 0..length,
\* and the view is empty when end <= begin
subarray(buf, begin, end) ==
    LET srcLength  == ByteLength(buf)
        beginIndex == NumMin(begin, srcLength)
        endIndex   == IF end.neg
                      THEN (IF NumGE(srcLength, end.mag)
                            THEN NumSub(srcLength, end.mag) ELSE <<0, 0>>)
                      ELSE NumMin(end.mag, srcLength)
        newLength  == IF NumGE(endIndex, beginIndex)
                      THEN NumSub(endIndex, beginIndex) ELSE <<0, 0>>
    IN  TakeBytes(DropBytes(buf, beginIndex), newLength)

\* ------------------------------------------------------------- extractVP8Bitstream

signature == << 86, 80, 56, 32 >>

\* webp[i + d], where i is the index of the first byte of entry j;
\* -1 stands for undefined (an index past the end)
RECURSIVE ByteFrom(_, _, _)
ByteFrom(webp, j, d) ==
    IF j > Len(webp) THEN -1
    ELSE IF webp[j] < 0
         THEN (IF d < -webp[j] THEN 0 ELSE ByteFrom(webp, j + 1, d + webp[j]))
         ELSE (IF d = 0 THEN webp[j] ELSE ByteFrom(webp, j + 1, d - 1))

\* A weakened comparison that looks at the first three signature bytes only,
\* so that the lossless tag "VP8L" matches as well.  The code compares all
\* four bytes; C7 tells the two apart.
signatureAtPrefix(webp, j) ==
    /\ ByteFrom(webp, j, 0) = signature[1]
    /\ ByteFrom(webp, j, 1) = signature[2]
    /\ ByteFrom(webp, j, 2) = signature[3]

signatureAt(webp, j) ==
    /\ ByteFrom(webp, j, 0) = signature[1]
    /\ ByteFrom(webp, j, 1) = signature[2]
    /\ ByteFrom(webp, j, 2) = signature[3]
    /\ ByteFrom(webp, j, 3) = signature[4]

\* webp[i+4] | (webp[i+5] << 8) | (webp[i+6] << 16) | (webp[i+7] << 24),
\* a signed 32-bit integer
chunkSize(webp, j) ==
    LET b7 == ByteFrom(webp, j, 7)
    IN  ByteFrom(webp, j, 4) + ByteFrom(webp, j, 5) * 256
        + ByteFrom(webp, j, 6) * 65536
        + (IF b7 >= 128 THEN b7 - 256 ELSE b7) * 16777216

\* A scan that runs while the four signature bytes are inside the buffer,
\* i <= webp.length - 4, where the code stops at webp.length - 10.  C17 tells
\* the two apart.
inScanRangeWide(i, length) == NumGE(length, NumAdd(i, <<0, 4>>))

\* i <= webp.length - 10
inScanRange(i, length) == NumGE(length, NumAdd(i, <<0, 10>>))

NotFound == [found |-> FALSE, j |-> 0, i |-> <<0, 0>>]

\* A loop that does not return at the first match and keeps the last one.
\* The code returns inside the loop; C25 tells the two apart.
RECURSIVE scanSignatureLast(_, _, _, _)
scanSignatureLast(webp, j, i, length) ==
    IF j > Len(webp) \/ ~inScanRange(i, length) THEN NotFound
    ELSE IF webp[j] < 0
         THEN scanSignatureLast(webp, j + 1, NumAdd(i, NumOf(-webp[j])), length)
         ELSE LET later == scanSignatureLast(webp, j + 1, NumAdd(i, <<0, 1>>), length)
              IN  IF later.found THEN later
                  ELSE IF signatureAt(webp, j)
                       THEN [found |-> TRUE, j |-> j, i |-> i]
                       ELSE NotFound

\* The for loop: entry j starts at byte index i.  The indices inside a run of
\* zero bytes cannot hold signature[0], so the loop passes over them unchanged
\* and the run is skipped in one step.
RECURSIVE scanSignature(_, _, _, _)
scanSignature(webp, j, i, length) ==
    IF j > Len(webp) \/ ~inScanRange(i, length) THEN NotFound
    ELSE IF webp[j] < 0
         THEN scanSignature(webp, j + 1, NumAdd(i, NumOf(-webp[j])), length)
         ELSE IF signatureAt(webp, j)
              THEN [found |-> TRUE, j |-> j, i |-> i]
              ELSE scanSignature(webp, j + 1, NumAdd(i, <<0, 1>>), length)

\* the result is [ok |-> TRUE, value |-> the view] or, for the thrown Error,
\* [ok |-> FALSE, value |-> <<>>]
extractVP8Bitstream(webp) ==
    LET m == scanSignature(webp, 1, <<0, 0>>, ByteLength(webp))
    IN  IF m.found
        THEN LET size  == chunkSize(webp, m.j)
                 start == NumAdd(m.i, <<0, 8>>)
             IN  [ok |-> TRUE, value |-> subarray(webp, start, AddInt32(start, size))]
        ELSE [ok |-> FALSE, value |-> <<>>]

\* ------------------------------------------------------------- createSimpleBlock

\* A block that names track 2.  The code writes 0x81, track 1, the number of
\* the one TrackEntry; C22 tells the two apart.
createSimpleBlockTrack2(vp8Frame, timecode) ==
    LET trackNumber == << 130 >>
        tc          == << (TimecodeBits(timecode) \div 256) % 256,
                          TimecodeBits(timecode) % 256 >>
        flags       == << 128 >>
        payload     == concatArrays(<< trackNumber, tc, flags, vp8Frame >>)
    IN  encodeElement(<< 163 >>, payload)

createSimpleBlock(vp8Frame, timecode) ==
    LET trackNumber == << 129 >>
        tc          == << (TimecodeBits(timecode) \div 256) % 256,
                          TimecodeBits(timecode) % 256 >>
        flags       == << 128 >>
        payload     == concatArrays(<< trackNumber, tc, flags, vp8Frame >>)
    IN  encodeElement(<< 163 >>, payload)

\* ------------------------------------------------------------- float64ToArray

\* A double is held as its IEEE-754 fields: the sign, the biased exponent
\* and the 52 fraction bits, written as seven digits: the top 4 bits, then
\* six bytes.

\* the sign bit this engine writes for a NaN
VARIABLE nanSign

\* largest e with d * 2^e <= n, for 0 < d <= n, together with d * 2^e
RECURSIVE ScaleUp(_, _, _)
ScaleUp(n, d, e) ==
    IF n >= 2 * d THEN ScaleUp(n, 2 * d, e + 1) ELSE [n |-> n, d |-> d, e |-> e]

\* least e with d <= n * 2^e, for 0 < n < d, together with n * 2^e
RECURSIVE ScaleDown(_, _, _)
ScaleDown(n, d, e) ==
    IF n < d THEN ScaleDown(2 * n, d, e - 1) ELSE [n |-> n, d |-> d, e |-> e]

\* the next digits of the binary expansion of r / d (0 <= r < d), one per
\* entry of widths (a digit of width w is floor(r * w / d)), and the
\* remainder left after them
RECURSIVE FracDigits(_, _, _, _)
FracDigits(r, d, widths, digits) ==
    IF widths = <<>> THEN [digits |-> digits, r |-> r]
    ELSE LET w == Head(widths)
         IN  FracDigits((r * w) % d, d, Tail(widths),
                        Append(digits, (r * w) \div d))

FracWidths == << 16, 256, 256, 256, 256, 256, 256 >>

ZeroFrac == << 0, 0, 0, 0, 0, 0, 0 >>

\* digits + 1; the carry out of the top digit is dropped
RECURSIVE Increment(_)
Increment(digits) ==
    IF digits = <<>> THEN <<>>
    ELSE LET n == Len(digits)
         IN  IF digits[n] < FracWidths[n] - 1
             THEN SubSeq(digits, 1, n - 1) \o << digits[n] + 1 >>
             ELSE Increment(SubSeq(digits, 1, n - 1)) \o << 0 >>

\* the fields of NaN: exponent 2047 and a fraction that is not 0.  Which of
\* the NaN patterns setFloat64 writes is the engine's choice, the same one in
\* every call; the model writes a quiet NaN with either sign, 7ff8 0000 0000
\* 0000 or fff8 0000 0000 0000
NaNFields == [sign |-> nanSign, exp |-> 2047, frac |-> << 8, 0, 0, 0, 0, 0, 0 >>]

\* num / den as the JavaScript operator / computes it for integers
\* 0 <= num < 2^22 and 0 < den < 2^22: the double nearest to the quotient,
\* ties to even; NaN / den is NaN and Infinity / den is Infinity
Divide(num, den) ==
    IF num = NaN THEN NaNFields
    ELSE IF num = Infinity THEN [sign |-> 0, exp |-> 2047, frac |-> ZeroFrac]
    ELSE IF num = 0 THEN [sign |-> 0, exp |-> 0, frac |-> ZeroFrac]
    ELSE LET s    == IF num >= den THEN ScaleUp(num, den, 0) ELSE ScaleDown(num, den, 0)
             f    == FracDigits(s.n - s.d, s.d, FracWidths, <<>>)
             up   == \/ 2 * f.r > s.d
                     \/ (2 * f.r = s.d /\ f.digits[7] % 2 = 1)
             ones == \A i \in 1..7 : f.digits[i] = FracWidths[i] - 1
         IN  IF ~up THEN [sign |-> 0, exp |-> s.e + 1023, frac |-> f.digits]
             ELSE IF ones THEN [sign |-> 0, exp |-> s.e + 1024, frac |-> ZeroFrac]
             ELSE [sign |-> 0, exp |-> s.e + 1023, frac |-> Increment(f.digits)]

\* DataView.setFloat64(0, value): sign, exponent, fraction, big-endian
float64ToArray(value) ==
    << value.sign * 128 + value.exp \div 16,
       (value.exp % 16) * 16 + value.frac[1] >>
    \o Tail(value.frac)

\* ------------------------------------------------------------- createWebM

\* new TextEncoder().encode("webm"), ("AnimArrange"), ("V_VP8")
textWebm == << 119, 101, 98, 109 >>
textAnimArrange == << 65, 110, 105, 109, 65, 114, 114, 97, 110, 103, 101 >>
textVVP8 == << 86, 95, 86, 80, 56 >>

ebml ==
    encodeElement(<< 26, 69, 223, 163 >>, concatArrays(<<
        encodeElement(<< 66, 134 >>, << 1 >>),
        encodeElement(<< 66, 247 >>, << 1 >>),
        encodeElement(<< 66, 242 >>, << 4 >>),
        encodeElement(<< 66, 243 >>, << 8 >>),
        encodeElement(<< 66, 130 >>, textWebm),
        encodeElement(<< 66, 135 >>, << 2 >>),
        encodeElement(<< 66, 133 >>, << 2 >> ) >>))

segmentInfo(durationMs) ==
    encodeElement(<< 21, 73, 169, 102 >>, concatArrays(<<
        encodeElement(<< 42, 215, 177 >>, uintToArray(1000000, 4)),
        encodeElement(<< 68, 137 >>, float64ToArray(Divide(durationMs, 1000))),
        encodeElement(<< 77, 128 >>, textAnimArrange),
        encodeElement(<< 87, 65 >>, textAnimArrange) >>))

trackEntry(width, height) ==
    encodeElement(<< 174 >>, concatArrays(<<
        encodeElement(<< 215 >>, uintToArray(1, 1)),
        encodeElement(<< 115, 197 >>, uintToArray(1, 1)),
        encodeElement(<< 156 >>, << 0 >>),
        encodeElement(<< 131 >>, << 1 >>),
        encodeElement(<< 134 >>, textVVP8),
        encodeElement(<< 224 >>, concatArrays(<<
            encodeElement(<< 176 >>, uintToArray(width, 2)),
            encodeElement(<< 186 >>, uintToArray(height, 2)) >>)) >>))

tracks(width, height) ==
    encodeElement(<< 22, 84, 174, 107 >>, trackEntry(width, height))

clusterTimecode == encodeElement(<< 231 >>, uintToArray(0, 2))

cluster(blocks) ==
    encodeElement(<< 31, 67, 182, 117 >>,
                  concatArrays(<< clusterTimecode >> \o blocks))

segment(durationMs, width, height, blocks) ==
    encodeElement(<< 24, 83, 128, 103 >>, concatArrays(<<
        segmentInfo(durationMs), tracks(width, height), cluster(blocks) >>))

\* ------------------------------------------------------------- inputs

\* most frames of one call of fromImageArray
MaxFrames == 3

\* longest enumerated data buffer handed to encodeElement
MaxDataLen == 2

\* longest enumerated buffer handed to extractVP8Bitstream on its own, and
\* longest payload of the buffers built around one "VP8 " chunk
MaxShort == 4
MaxPayload == 4

\* the values handed to encodeVint: the ends of the length classes, the
\* lengths the specification lists, values around 2^31 and 2^32, and the
\* largest integer a number holds exactly, 2^53 - 1
VintInputs ==
    {Pow2Minus1(7 * l) : l \in 1..7}
    \cup {NumSub(Pow2Minus1(7 * l), <<0, 1>>) : l \in 1..7}
    \cup {NumAdd(Pow2Minus1(7 * l), <<0, 1>>) : l \in 1..7}
    \cup {NumOf(n) : n \in {0, 1, 128, 16384, 2000000, 2147483647}}
    \cup {<<8, 0>>, <<8, 1>>, <<15, Base - 1>>, <<16, 0>>, <<16, 5>>,
          <<2^25 - 1, Base - 1>>}

RECURSIVE SeqsUpTo(_, _)
SeqsUpTo(alphabet, n) ==
    IF n = 0 THEN {<<>>}
    ELSE LET shorter == SeqsUpTo(alphabet, n - 1)
         IN  shorter \cup {Append(b, x) : b \in shorter, x \in alphabet}

Fill(n, b) == [i \in 1..n |-> b]

\* two runs of 2^30 zero bytes: a buffer of 2^31 bytes
BigRun == -(2^30)

ElementIds == { << 163 >>, << 66, 134 >>, << 42, 215, 177 >>, << 26, 69, 223, 163 >> }

ElementData ==
    SeqsUpTo({0, 255}, MaxDataLen)
    \cup {Fill(126, 1), Fill(127, 1), Fill(128, 1)}
    \cup {<< BigRun >>, << BigRun, 7, BigRun >>}

\* a number below 2^31 as 4 bytes, little-endian
LE4(n) == << n % 256, (n \div 256) % 256, (n \div 65536) % 256, n \div 16777216 >>

riffHeader == << 82, 73, 70, 70, 40, 0, 0, 0, 87, 69, 66, 80 >>

\* 13 bytes in which no occurrence of "VP8 " starts
Headers13 ==
    { Fill(13, 0),
      riffHeader \o << 0 >>,
      << 86, 80, 56, 76, 86, 80, 56, 86, 80, 86, 32, 86, 80 >> }

PayloadPattern == << 86, 80, 56, 32, 161, 162, 163, 164, 165, 166 >>

\* header || "VP8 " || L as 4 bytes little-endian || L bytes of payload
ChunkBuffers ==
    {h \o signature \o LE4(l) \o SubSeq(PayloadPattern, 1, l) :
        h \in Headers13, l \in 0..MaxPayload}
    \cup {Fill(13, 0) \o signature \o LE4(2^30) \o << BigRun >>,
          Fill(13, 0) \o signature \o << 0, 0, 0, 128 >> \o << BigRun, BigRun >>}

\* buffers the scan does not succeed on, or succeeds on late
OtherBuffers ==
    SeqsUpTo({86, 80, 56, 32}, MaxShort)
    \cup { riffHeader \o << 86, 80, 56, 76 >> \o LE4(6) \o << 47, 1, 2, 3, 4, 5 >>,
           Fill(8, 0) \o signature \o << 1, 0 >>,
           Fill(8, 0) \o signature \o LE4(1) \o << 9, 0 >>,
           signature \o LE4(9) \o << 1, 2 >>,
           signature \o << 254, 255, 255, 255 >> \o << 1, 2, 3 >>,
           << 86, 80, 56 >> \o signature \o LE4(4) \o signature,
           signature \o LE4(14) \o signature \o LE4(2) \o << 1, 2, 3, 4, 5, 6 >>,
           signature \o LE4(2) \o << 1, 2 >> \o signature \o LE4(3) \o << 7, 8, 9 >>,
           riffHeader \o signature \o LE4(4) \o signature
               \o signature \o LE4(1) \o << 9, 9, 9 >>,
           << BigRun >>,
           << BigRun >> \o signature \o LE4(2) \o << 1, 2 >> }

ExtractInputs == ChunkBuffers \cup OtherBuffers

\* the frames of a call, after dataURLToUint8Array: lossy images of 109 and
\* of 110 payload bytes (zero bytes, held as one run) with their RIFF
\* header, a lossless image (no "VP8 " chunk) and a lossy image of 2^30
\* payload bytes without header
FrameSet ==
    { riffHeader \o signature \o LE4(109) \o << -109 >>,
      riffHeader \o signature \o LE4(110) \o << -110 >>,
      riffHeader \o << 86, 80, 56, 76 >> \o LE4(6) \o << 47, 1, 2, 3, 4, 5 >>,
      signature \o LE4(2^30) \o << BigRun >> }

\* Number.MIN_VALUE, the least positive number, 2^-1074: the denominator,
\* too large to write, is written 0
MinValue == << 1, 0 >>

\* the bitstreams and timecodes handed to createSimpleBlock on its own:
\* payloads of 4, 7, 127, 128, 2^30 + 4 and 2^31 + 4 bytes, and timecodes at
\* both ends of the two bytes
BlockFrames ==
    { <<>>, << 1, 2, 3 >>, Fill(123, 7), Fill(124, 7),
      << BigRun >>, << BigRun, BigRun >> }

BlockTimecodes == { 0, 1, 100, 255, 256, 32767 }

\* fps as numerator and denominator: 10, 24, 4000 and 1/64 frames per
\* second, and the least positive number
FpsSet == { << 10, 1 >>, << 24, 1 >>, << 4000, 1 >>, << 1, 64 >>, MinValue }

\* width and height
SizeSet == { << 2, 2 >>, << 640, 480 >>, << 65536, 70000 >> }

\* ------------------------------------------------------------- state

VARIABLES
    op,               \* the function this behaviour calls
    arg,              \* the argument of encodeVint, encodeElement,
                      \* extractVP8Bitstream, createSimpleBlock
    ret,              \* what that call returned
    pc,               \* where the call is
    frames, fps, width, height,  \* the arguments of fromImageArray
    frameDurationMs,  \* fromImageArray: Math.round(1000 / fps)
    vp8Frames,        \* fromImageArray: the bitstreams frames.map has produced
    timecode,         \* createWebM: the running timecode
    simpleBlocks,     \* createWebM: the blocks pushed so far
    blob,             \* what fromImageArray resolved to
    createWebMCalls,  \* calls of createWebM in this run
    run,              \* 1 for the first call of fromImageArray, 2 for the second
    firstBlob         \* the outcome of the first call

\* handleExportVideoWebM, which uses frames, fps, width, height and blob too
VARIABLES
    isPlaying, currentTime,   \* the player's state, in 1/48 s
    stage,            \* whether the element "preview-stage" exists
    rect,             \* the size of the stage on the screen
    durationSec,      \* computeTimelineDurationSec(...), in 1/48 s
    encoder,          \* what canvas.toDataURL("image/webp") returns here
    cancelRef,        \* cancelRef.current
    wasPlaying, originalTime,  \* the player's state captured at entry
    stageStyle,       \* "original", or "export" while the size is pinned
    canvas,           \* "none", "attached" to the document, "removed"
    totalFrames, frame,  \* the loop over the frames
    calls,            \* the calls made so far, in order
    toastTitle,       \* the title of the toast on the screen
    toastCancel,      \* whether that toast shows the Cancel button
    cancelledAt       \* the frames captured when Cancel was first pressed

expVars == << isPlaying, currentTime, stage, rect, durationSec, encoder,
              cancelRef, wasPlaying, originalTime, stageStyle, canvas,
              totalFrames, frame, calls, toastTitle, toastCancel, cancelledAt >>

vars == << op, arg, ret, pc, frames, fps, width, height, frameDurationMs,
           vp8Frames, timecode, simpleBlocks, blob, createWebMCalls, run,
           firstBlob, nanSign, expVars >>

muxVars == << frames, fps, width, height, frameDurationMs, vp8Frames,
              timecode, simpleBlocks, blob, createWebMCalls, run, firstBlob,
              nanSign >>

NoBlob == [kind |-> "none", type |-> "", bytes |-> <<>>]

\* no export is under way
NoExport ==
    /\ isPlaying = FALSE /\ currentTime = 0 /\ stage = FALSE
    /\ rect = << 0, 0 >> /\ durationSec = 0 /\ encoder = <<>>
    /\ cancelRef = FALSE /\ wasPlaying = FALSE /\ originalTime = 0
    /\ stageStyle = "original" /\ canvas = "none"
    /\ totalFrames = 0 /\ frame = 0 /\ calls = <<>>
    /\ toastTitle = "" /\ toastCancel = FALSE /\ cancelledAt = -1

NoCall ==
    /\ frames = <<>> /\ fps = <<1, 1>> /\ width = 0 /\ height = 0
    /\ frameDurationMs = 0 /\ vp8Frames = <<>> /\ timecode = 0
    /\ simpleBlocks = <<>> /\ blob = NoBlob /\ createWebMCalls = 0
    /\ run = 1 /\ firstBlob = NoBlob /\ nanSign = 0
    /\ NoExport

RECURSIVE FrameLists(_)
FrameLists(n) ==
    IF n = 0 THEN {<<>>}
    ELSE LET shorter == FrameLists(n - 1)
         IN  shorter \cup {Append(l, f) : l \in shorter, f \in FrameSet}

InitVint ==
    /\ op = "encodeVint" /\ arg \in VintInputs
    /\ ret = <<>> /\ pc = "start" /\ NoCall

InitElement ==
    /\ op = "encodeElement"
    /\ arg \in {[id |-> i, data |-> d] : i \in ElementIds, d \in ElementData}
    /\ ret = <<>> /\ pc = "start" /\ NoCall

InitExtract ==
    /\ op = "extractVP8Bitstream" /\ arg \in ExtractInputs
    /\ ret = <<>> /\ pc = "start" /\ NoCall

InitBlock ==
    /\ op = "createSimpleBlock"
    /\ arg \in {[vp8Frame |-> b, timecode |-> t] : b \in BlockFrames, t \in BlockTimecodes}
    /\ ret = <<>> /\ pc = "start" /\ NoCall

InitMux ==
    /\ op = "fromImageArray" /\ arg = <<>> /\ ret = <<>> /\ pc = "start"
    /\ frames \in FrameLists(MaxFrames)
    /\ fps \in FpsSet
    /\ \E s \in SizeSet : width = s[1] /\ height = s[2]
    /\ frameDurationMs = 0 /\ vp8Frames = <<>> /\ timecode = 0
    /\ simpleBlocks = <<>> /\ blob = NoBlob /\ createWebMCalls = 0
    /\ run = 1 /\ firstBlob = NoBlob
    /\ nanSign \in (IF fps = MinValue THEN {0, 1} ELSE {0})
    /\ NoExport

\* const FPS = 24
FPS == 24

\* what canvas.toDataURL("image/webp", 0.95) returns, decoded: a lossy
\* image with a bitstream of 10 bytes, a lossy image with a bitstream of 2
\* bytes, as a stub of the canvas writes, and an image without "VP8 " chunk,
\* as an engine without a WebP encoder returns
EncoderSet ==
    { riffHeader \o signature \o LE4(10) \o << -10 >>,
      signature \o LE4(2) \o << 170, 187 >>,
      riffHeader \o << 86, 80, 56, 76 >> \o LE4(6) \o << 47, 1, 2, 3, 4, 5 >> }

\* the timeline's duration in 1/48 s: computeTimelineDurationSec returns
\* 0.5 s or more
DurationSet == { 24, 25 }

\* currentTime at entry in 1/48 s, or a value that is no finite number
CurrentTimeSet == { 0, 7, NaN }

\* the stage's width and height on the screen
RectSet == { << 0, 0 >>, << 641, 481 >> }

InitExport ==
    /\ op = "handleExportVideoWebM" /\ arg = <<>> /\ ret = <<>> /\ pc = "start"
    /\ frames = <<>> /\ fps = << FPS, 1 >> /\ width = 0 /\ height = 0
    /\ frameDurationMs = 0 /\ vp8Frames = <<>> /\ timecode = 0
    /\ simpleBlocks = <<>> /\ blob = NoBlob /\ createWebMCalls = 0
    /\ run = 1 /\ firstBlob = NoBlob /\ nanSign = 0
    /\ isPlaying \in BOOLEAN /\ currentTime \in CurrentTimeSet
    /\ stage \in BOOLEAN /\ rect \in RectSet
    /\ durationSec \in DurationSet /\ encoder \in EncoderSet
    /\ cancelRef = FALSE /\ wasPlaying = FALSE /\ originalTime = 0
    /\ stageStyle = "original" /\ canvas = "none"
    /\ totalFrames = 0 /\ frame = 0 /\ calls = <<>>
    /\ toastTitle = "" /\ toastCancel = FALSE /\ cancelledAt = -1

Init ==
    InitVint \/ InitElement \/ InitExtract \/ InitBlock \/ InitMux \/ InitExport

\* ------------------------------------------------------------- calls of the helpers

CallEncodeVint ==
    /\ op = "encodeVint" /\ pc = "start"
    /\ ret' = encodeVint(arg)
    /\ pc' = "returned"
    /\ UNCHANGED << op, arg, muxVars, expVars >>

CallEncodeElement ==
    /\ op = "encodeElement" /\ pc = "start"
    /\ ret' = encodeElement(arg.id, arg.data)
    /\ pc' = "returned"
    /\ UNCHANGED << op, arg, muxVars, expVars >>

CallExtractVP8Bitstream ==
    /\ op = "extractVP8Bitstream" /\ pc = "start"
    /\ LET r == extractVP8Bitstream(arg)
       IN  /\ ret' = r.value
           /\ pc' = IF r.ok THEN "returned" ELSE "thrown"
    /\ UNCHANGED << op, arg, muxVars, expVars >>

CallCreateSimpleBlock ==
    /\ op = "createSimpleBlock" /\ pc = "start"
    /\ ret' = createSimpleBlock(arg.vp8Frame, arg.timecode)
    /\ pc' = "returned"
    /\ UNCHANGED << op, arg, muxVars, expVars >>

\* ------------------------------------------------------------- fromImageArray

\* Math.round(n / d) for n >= 0 and d > 0: the nearest integer, halves up
MathRound(n, d) == (2 * n + d) \div (2 * d)

\* Math.round(1000 / f): 1000 / Number.MIN_VALUE is Infinity, which
\* Math.round returns unchanged
RoundedFrameDuration(f) ==
    IF f = MinValue THEN Infinity ELSE MathRound(1000 * f[2], f[1])

\* const frameDurationMs = Math.round(1000 / fps), then frames.map(...) starts
EnterFromImageArray ==
    /\ op = "fromImageArray" /\ pc = "start"
    /\ frameDurationMs' = RoundedFrameDuration(fps)
    /\ vp8Frames' = <<>>
    /\ pc' = "map"
    /\ UNCHANGED << op, arg, ret, frames, fps, width, height, timecode,
                    simpleBlocks, blob, createWebMCalls, run, firstBlob, nanSign,
                    expVars >>

\* A map callback that swallows the Error of extractVP8Bitstream and maps the
\* frame to an empty bitstream.  The code lets the Error escape; C8 tells the
\* two apart.
MapFrameBlank ==
    /\ op = "fromImageArray" /\ pc = "map"
    /\ Len(vp8Frames) < Len(frames)
    /\ LET r == extractVP8Bitstream(frames[Len(vp8Frames) + 1])
       IN  vp8Frames' = Append(vp8Frames, IF r.ok THEN r.value ELSE <<>>)
    /\ pc' = "map"
    /\ UNCHANGED << op, arg, ret, frames, fps, width, height, frameDurationMs,
                    timecode, simpleBlocks, blob, createWebMCalls, run,
                    firstBlob, nanSign,
                    expVars >>

\* A map callback that stores each bitstream back into the list it was
\* given (frames[i] = ...).  The code builds a new list and leaves its
\* argument alone; C23 tells the two apart.
MapFrameInPlace ==
    /\ op = "fromImageArray" /\ pc = "map"
    /\ Len(vp8Frames) < Len(frames)
    /\ LET r == extractVP8Bitstream(frames[Len(vp8Frames) + 1])
       IN  IF r.ok
           THEN /\ vp8Frames' = Append(vp8Frames, r.value)
                /\ frames' = [frames EXCEPT ![Len(vp8Frames) + 1] = r.value]
                /\ pc' = "map"
                /\ blob' = blob
           ELSE /\ vp8Frames' = vp8Frames
                /\ frames' = frames
                /\ pc' = "thrown"
                /\ blob' = [kind |-> "error", type |-> "", bytes |-> <<>>]
    /\ UNCHANGED << op, arg, ret, fps, width, height, frameDurationMs,
                    timecode, simpleBlocks, createWebMCalls, run, firstBlob, nanSign,
                    expVars >>

\* one call of the map callback: the next frame's bitstream is added, or
\* the Error of extractVP8Bitstream leaves map and rejects the promise
MapFrame ==
    /\ op = "fromImageArray" /\ pc = "map"
    /\ Len(vp8Frames) < Len(frames)
    /\ LET r == extractVP8Bitstream(frames[Len(vp8Frames) + 1])
       IN  IF r.ok
           THEN /\ vp8Frames' = Append(vp8Frames, r.value)
                /\ pc' = "map"
                /\ blob' = blob
           ELSE /\ vp8Frames' = vp8Frames
                /\ pc' = "thrown"
                /\ blob' = [kind |-> "error", type |-> "", bytes |-> <<>>]
    /\ UNCHANGED << op, arg, ret, frames, fps, width, height, frameDurationMs,
                    timecode, simpleBlocks, createWebMCalls, run, firstBlob, nanSign,
                    expVars >>

\* An entry of createWebM whose timecode is kept across calls, as a
\* module-level counter would be.  The code declares timecode inside
\* createWebM, starting at 0 in every call; C10 tells the two apart.
EnterCreateWebMStale ==
    /\ op = "fromImageArray" /\ pc = "map"
    /\ Len(vp8Frames) = Len(frames)
    /\ createWebMCalls' = createWebMCalls + 1
    /\ simpleBlocks' = <<>>
    /\ pc' = "loop"
    /\ UNCHANGED << op, arg, ret, frames, fps, width, height, frameDurationMs,
                    vp8Frames, timecode, blob, run, firstBlob, nanSign,
                    expVars >>

\* createWebM is called with the mapped frames: simpleBlocks = [], timecode = 0
EnterCreateWebM ==
    /\ op = "fromImageArray" /\ pc = "map"
    /\ Len(vp8Frames) = Len(frames)
    /\ createWebMCalls' = createWebMCalls + 1
    /\ simpleBlocks' = <<>>
    /\ timecode' = 0
    /\ pc' = "loop"
    /\ UNCHANGED << op, arg, ret, frames, fps, width, height, frameDurationMs,
                    vp8Frames, blob, run, firstBlob, nanSign,
                    expVars >>

\* A turn of the loop that adds frameDurationMs before it builds the block,
\* so that the first block already carries one frame duration.  The code
\* builds the block first; C20 tells the two apart.
PushSimpleBlockLate ==
    /\ op = "fromImageArray" /\ pc = "loop"
    /\ Len(simpleBlocks) < Len(vp8Frames)
    /\ simpleBlocks' =
           Append(simpleBlocks,
                  createSimpleBlock(vp8Frames[Len(simpleBlocks) + 1],
                                    Plus(timecode, frameDurationMs)))
    /\ timecode' = Plus(timecode, frameDurationMs)
    /\ UNCHANGED << op, arg, ret, pc, frames, fps, width, height,
                    frameDurationMs, vp8Frames, blob, createWebMCalls, run,
                    firstBlob, nanSign,
                    expVars >>

\* one turn of the loop over the frames
PushSimpleBlock ==
    /\ op = "fromImageArray" /\ pc = "loop"
    /\ Len(simpleBlocks) < Len(vp8Frames)
    /\ simpleBlocks' =
           Append(simpleBlocks,
                  createSimpleBlock(vp8Frames[Len(simpleBlocks) + 1], timecode))
    /\ timecode' = Plus(timecode, frameDurationMs)
    /\ UNCHANGED << op, arg, ret, pc, frames, fps, width, height,
                    frameDurationMs, vp8Frames, blob, createWebMCalls, run,
                    firstBlob, nanSign,
                    expVars >>

\* A createWebM whose declared duration ends at the start of the last frame
\* (frameCount - 1 frame durations).  The code declares frameCount frame
\* durations; C27 tells the two apart.
webmBytesToLastFrame(vp8, frameDuration, w, h, blocks) ==
    LET n == IF vp8 = <<>> THEN 0 ELSE Len(vp8) - 1
    IN  concatArrays(<< ebml, segment(Times(frameDuration, n), w, h, blocks) >>)

\* what createWebM returns
webmBytes(vp8, frameDuration, w, h, blocks) ==
    concatArrays(<< ebml, segment(Times(frameDuration, Len(vp8)), w, h, blocks) >>)

\* createWebM returns and fromImageArray wraps the bytes in a Blob
ReturnBlob ==
    /\ op = "fromImageArray" /\ pc = "loop"
    /\ Len(simpleBlocks) = Len(vp8Frames)
    /\ blob' = [kind  |-> "blob", type |-> "video/webm",
                bytes |-> webmBytes(vp8Frames, frameDurationMs, width, height,
                                    simpleBlocks)]
    /\ pc' = "returned"
    /\ UNCHANGED << op, arg, ret, frames, fps, width, height, frameDurationMs,
                    vp8Frames, timecode, simpleBlocks, createWebMCalls, run,
                    firstBlob, nanSign,
                    expVars >>

\* the caller calls fromImageArray a second time with the same arguments
CallAgain ==
    /\ op = "fromImageArray" /\ pc \in {"returned", "thrown"} /\ run = 1
    /\ firstBlob' = blob
    /\ run' = 2
    /\ blob' = NoBlob
    /\ createWebMCalls' = 0
    /\ pc' = "start"
    /\ UNCHANGED << op, arg, ret, frames, fps, width, height, frameDurationMs,
                    vp8Frames, timecode, simpleBlocks, nanSign,
                    expVars >>

\* ------------------------------------------------------------- handleExportVideoWebM

\* A guard that calls a Blob empty below 128 bytes.  The code's threshold is
\* 256; C24 tells the two apart.
SizeGuardLow(b) ==
    b.kind # "blob" \/ ~NumGE(ByteLength(b.bytes), NumOf(128))

\* A guard that also calls a Blob of exactly 256 bytes empty (<= for <).
\* C26 tells the two apart.
SizeGuardInclusive(b) ==
    b.kind # "blob" \/ ~NumGE(ByteLength(b.bytes), NumOf(257))

\* !blob || blob.size < 256
SizeGuard(b) ==
    b.kind # "blob" \/ ~NumGE(ByteLength(b.bytes), NumOf(256))

\* fromImageArray as its caller sees it: the Blob it resolves to, or the
\* Error it rejects with
RECURSIVE timecodeOf(_, _)
timecodeOf(k, d) == IF k = 0 THEN 0 ELSE Plus(timecodeOf(k - 1, d), d)

fromImageArray(fr, f, w, h) ==
    LET ex  == [k \in 1..Len(fr) |-> extractVP8Bitstream(fr[k])]
        vp8 == [k \in 1..Len(fr) |-> ex[k].value]
        d   == RoundedFrameDuration(f)
        blocks == [k \in 1..Len(fr) |-> createSimpleBlock(vp8[k], timecodeOf(k - 1, d))]
    IN  IF \E k \in 1..Len(fr) : ~ex[k].ok
        THEN [kind |-> "error", type |-> "", bytes |-> <<>>]
        ELSE [kind |-> "blob", type |-> "video/webm",
              bytes |-> webmBytes(vp8, d, w, h, blocks)]

Max(a, b) == IF a >= b THEN a ELSE b
Min(a, b) == IF a <= b THEN a ELSE b

\* Math.max(2, Math.round(x)) & ~1, for a whole x
EvenSize(x) == (Max(2, x) \div 2) * 2

\* A finally block that does not call setIsPlaying(wasPlaying).  The code
\* restores both; C29 tells the two apart.
finallyKeepsPaused(cs, t, ot, wp) ==
    /\ canvas' = IF canvas = "attached" THEN "removed" ELSE canvas
    /\ stageStyle' = "original"
    /\ calls' = cs \o << << "setCurrentTime", ot >> >>
    /\ currentTime' = ot
    /\ isPlaying' = isPlaying
    /\ toastTitle' = t /\ toastCancel' = FALSE
    /\ pc' = "done"

\* the finally block, after the last toast t of the try block and the calls
\* cs made so far: the canvas is removed, the stage's style put back,
\* setCurrentTime(originalTime) and setIsPlaying(wasPlaying) are called
finally(cs, t, ot, wp) ==
    /\ canvas' = IF canvas = "attached" THEN "removed" ELSE canvas
    /\ stageStyle' = "original"
    /\ calls' = cs \o << << "setCurrentTime", ot >>, << "setIsPlaying", wp >> >>
    /\ currentTime' = ot
    /\ isPlaying' = wp
    /\ toastTitle' = t /\ toastCancel' = FALSE
    /\ pc' = "done"

\* entry, up to the first await: the player's state is captured; without
\* stage the function returns, else playback stops and the frames are counted
ExportEnter ==
    /\ op = "handleExportVideoWebM" /\ pc = "start"
    /\ LET wp == isPlaying
           ot == IF currentTime \in {NaN, Infinity} THEN 0 ELSE currentTime
       IN  /\ wasPlaying' = wp
           /\ originalTime' = ot
           /\ IF ~stage
              THEN /\ finally(calls, "Preview not found", ot, wp)
                   /\ totalFrames' = totalFrames
              ELSE /\ calls' = Append(calls, << "setIsPlaying", FALSE >>)
                   /\ isPlaying' = FALSE
                   /\ totalFrames' = Max(1, (durationSec * FPS) \div 48 + 1)
                   /\ pc' = "paint"
                   /\ UNCHANGED << currentTime, canvas, stageStyle, toastTitle,
                                   toastCancel >>
    /\ UNCHANGED << op, arg, ret, frames, fps, width, height, frameDurationMs,
                    vp8Frames, timecode, simpleBlocks, blob, createWebMCalls,
                    run, firstBlob, nanSign, stage, rect, durationSec, encoder,
                    cancelRef, frame, cancelledAt >>

\* after the paint: the stage's size is pinned, the canvas attached, the
\* first toast shown with its Cancel button, and the loop entered
ExportSetup ==
    /\ op = "handleExportVideoWebM" /\ pc = "paint"
    /\ LET W == EvenSize(rect[1])
           H == EvenSize(rect[2])
       IN  IF W < 2 \/ H < 2
           THEN /\ finally(calls, "Stage too small", originalTime, wasPlaying)
                /\ UNCHANGED << width, height, frames, frame >>
           ELSE /\ width' = W /\ height' = H
                /\ stageStyle' = "export"
                /\ canvas' = "attached"
                /\ frames' = <<>>
                /\ toastTitle' = "Exporting video" /\ toastCancel' = TRUE
                /\ frame' = 0
                /\ pc' = "sleep"
                /\ UNCHANGED << calls, currentTime, isPlaying >>
    /\ UNCHANGED << op, arg, ret, fps, frameDurationMs, vp8Frames, timecode,
                    simpleBlocks, blob, createWebMCalls, run, firstBlob,
                    nanSign, stage, rect, durationSec, encoder, cancelRef,
                    wasPlaying, originalTime, totalFrames, cancelledAt >>

\* the timer of sleepUntil has fired: setCurrentTime(logicalT), then the
\* next animation frame is awaited
ExportSeek ==
    /\ op = "handleExportVideoWebM" /\ pc = "sleep"
    /\ LET logicalT == Min(durationSec, frame * (48 \div FPS))
       IN  /\ calls' = Append(calls, << "setCurrentTime", logicalT >>)
           /\ currentTime' = logicalT
    /\ pc' = "raf"
    /\ UNCHANGED << op, arg, ret, frames, fps, width, height, frameDurationMs,
                    vp8Frames, timecode, simpleBlocks, blob, createWebMCalls,
                    run, firstBlob, nanSign, isPlaying, stage, rect,
                    durationSec, encoder, cancelRef, wasPlaying, originalTime,
                    stageStyle, canvas, totalFrames, frame, toastTitle,
                    toastCancel, cancelledAt >>

\* the animation frame has come: drawElementToCanvas starts
ExportDraw ==
    /\ op = "handleExportVideoWebM" /\ pc = "raf"
    /\ pc' = "draw"
    /\ UNCHANGED << op, arg, ret, muxVars, expVars >>

\* A capture without the check of cancelRef after the loop: a cancelled run
\* goes on to mux and to download what it has.  The code returns there; C28
\* tells the two apart.
ExportCaptureUnchecked ==
    /\ op = "handleExportVideoWebM" /\ pc = "draw"
    /\ \E thrown \in BOOLEAN :
         IF thrown
         THEN /\ finally(calls, "Video export failed", originalTime, wasPlaying)
              /\ UNCHANGED << frames, frame, blob >>
         ELSE LET captured == Append(frames, encoder)
              IN  /\ frames' = captured
                  /\ frame' = frame + 1
                  /\ IF frame + 1 < totalFrames /\ ~cancelRef
                     THEN /\ pc' = "sleep"
                          /\ toastTitle' = "Exporting video" /\ toastCancel' = TRUE
                          /\ UNCHANGED << blob, calls, currentTime, isPlaying,
                                          canvas, stageStyle >>
                     ELSE IF FALSE
                     THEN /\ finally(calls, "Export cancelled", originalTime, wasPlaying)
                          /\ blob' = blob
                     ELSE LET b  == fromImageArray(captured, fps, width, height)
                              cs == Append(calls, << "fromImageArray", Len(captured) >>)
                          IN  /\ blob' = b
                              /\ IF b.kind = "error"
                                 THEN finally(cs, "Video export failed",
                                              originalTime, wasPlaying)
                                 ELSE IF SizeGuard(b)
                                 THEN finally(cs, "Video export failed",
                                              originalTime, wasPlaying)
                                 ELSE finally(Append(cs, << "downloadBlob", Len(captured) >>),
                                              "Exported", originalTime, wasPlaying)
    /\ UNCHANGED << op, arg, ret, fps, width, height, frameDurationMs,
                    vp8Frames, timecode, simpleBlocks, createWebMCalls, run,
                    firstBlob, nanSign, stage, rect, durationSec, encoder,
                    cancelRef, wasPlaying, originalTime, totalFrames,
                    cancelledAt >>

\* the drawing has ended (a failed one leaves a black canvas) and
\* canvas.toDataURL has returned the frame or thrown; the frame is kept and
\* the loop goes on, or it ends: on cancel the function returns, else the
\* frames are muxed, and the Blob is downloaded unless it is an Error or too
\* small
ExportCapture ==
    /\ op = "handleExportVideoWebM" /\ pc = "draw"
    /\ \E thrown \in BOOLEAN :
         IF thrown
         THEN /\ finally(calls, "Video export failed", originalTime, wasPlaying)
              /\ UNCHANGED << frames, frame, blob >>
         ELSE LET captured == Append(frames, encoder)
              IN  /\ frames' = captured
                  /\ frame' = frame + 1
                  /\ IF frame + 1 < totalFrames /\ ~cancelRef
                     THEN /\ pc' = "sleep"
                          /\ toastTitle' = "Exporting video" /\ toastCancel' = TRUE
                          /\ UNCHANGED << blob, calls, currentTime, isPlaying,
                                          canvas, stageStyle >>
                     ELSE IF cancelRef
                     THEN /\ finally(calls, "Export cancelled", originalTime, wasPlaying)
                          /\ blob' = blob
                     ELSE LET b  == fromImageArray(captured, fps, width, height)
                              cs == Append(calls, << "fromImageArray", Len(captured) >>)
                          IN  /\ blob' = b
                              /\ IF b.kind = "error"
                                 THEN finally(cs, "Video export failed",
                                              originalTime, wasPlaying)
                                 ELSE IF SizeGuard(b)
                                 THEN finally(cs, "Video export failed",
                                              originalTime, wasPlaying)
                                 ELSE finally(Append(cs, << "downloadBlob", Len(captured) >>),
                                              "Exported", originalTime, wasPlaying)
    /\ UNCHANGED << op, arg, ret, fps, width, height, frameDurationMs,
                    vp8Frames, timecode, simpleBlocks, createWebMCalls, run,
                    firstBlob, nanSign, stage, rect, durationSec, encoder,
                    cancelRef, wasPlaying, originalTime, totalFrames,
                    cancelledAt >>

\* the user presses Cancel on the toast while the export awaits a timer, an
\* animation frame or the drawing
Cancel ==
    /\ op = "handleExportVideoWebM" /\ pc \in {"sleep", "raf", "draw"}
    /\ toastCancel
    /\ ~cancelRef
    /\ cancelRef' = TRUE
    /\ cancelledAt' = Len(frames)
    /\ UNCHANGED << op, arg, ret, pc, muxVars, isPlaying, currentTime, stage,
                    rect, durationSec, encoder, wasPlaying, originalTime,
                    stageStyle, canvas, totalFrames, frame, calls, toastTitle,
                    toastCancel >>

Next ==
    \/ CallEncodeVint
    \/ CallEncodeElement
    \/ CallExtractVP8Bitstream
    \/ CallCreateSimpleBlock
    \/ EnterFromImageArray
    \/ MapFrame
    \/ EnterCreateWebM
    \/ PushSimpleBlock
    \/ ReturnBlob
    \/ CallAgain
    \/ ExportEnter
    \/ ExportSetup
    \/ ExportSeek
    \/ ExportDraw
    \/ ExportCapture
    \/ Cancel

Spec == Init /\ [][Next]_vars

\* ------------------------------------------------------------- reading EBML back

\* The standard reader of the format, used to state the properties; it is
\* no part of the muxer.

\* bytes of an id or a size whose first byte is b: one more than the number
\* of leading zero bits; 0 when b has no bit set
WidthOf(b) ==
    IF b >= 128 THEN 1 ELSE IF b >= 64 THEN 2 ELSE IF b >= 32 THEN 3
    ELSE IF b >= 16 THEN 4 ELSE IF b >= 8 THEN 5 ELSE IF b >= 4 THEN 6
    ELSE IF b >= 2 THEN 7 ELSE IF b >= 1 THEN 8 ELSE 0

AllBytes(buf, p, q) == \A k \in p..q : k \in DOMAIN buf /\ buf[k] >= 0

\* acc * 256 + b
Shift8Add(acc, b) ==
    << acc[1] * 256 + (acc[2] \div 2^20), (acc[2] % 2^20) * 256 + b >>

RECURSIVE BigEndian(_, _)
BigEndian(bytes, acc) ==
    IF bytes = <<>> THEN acc
    ELSE BigEndian(Tail(bytes), Shift8Add(acc, Head(bytes)))

\* the vint that starts at entry p of buf: its width and its value with the
\* length-marker bit stripped; ok is FALSE when no vint starts there
DecodeVint(buf, p) ==
    IF ~AllBytes(buf, p, p) \/ WidthOf(buf[p]) = 0
        \/ ~AllBytes(buf, p, p + WidthOf(buf[p]) - 1)
    THEN [ok |-> FALSE, width |-> 0, value |-> <<0, 0>>]
    ELSE LET w == WidthOf(buf[p])
         IN  [ok |-> TRUE, width |-> w,
              value |-> BigEndian(SubSeq(buf, p + 1, p + w - 1),
                                  <<0, buf[p] - 2^(8 - w)>>)]

\* first entry at or after p that is a run, Len(buf) + 1 when there is none
NextRun(buf, p) ==
    IF \E k \in p..Len(buf) : buf[k] < 0
    THEN CHOOSE k \in p..Len(buf) :
             buf[k] < 0 /\ \A m \in p..(k - 1) : buf[m] >= 0
    ELSE Len(buf) + 1

\* the entry after a payload of size bytes that starts at entry p; 0 when
\* the buffer ends before, or the payload ends inside a run
RECURSIVE PayloadEnd(_, _, _)
PayloadEnd(buf, p, size) ==
    LET r   == NextRun(buf, p)
        gap == NumOf(r - p)
    IN  IF NumGE(gap, size) THEN p + size[2]
        ELSE IF r > Len(buf) THEN 0
        ELSE LET rest == NumSub(size, gap)
                 rl   == NumOf(-buf[r])
             IN  IF NumGE(rest, rl) THEN PayloadEnd(buf, r + 1, NumSub(rest, rl))
                 ELSE 0

NoElement == [ok |-> FALSE, id |-> <<>>, from |-> 0, to |-> 0]

\* the element that starts at entry p: its id and the entries from..to - 1
\* of its payload
ElementAt(buf, p) ==
    IF ~AllBytes(buf, p, p) \/ WidthOf(buf[p]) \notin 1..4
        \/ ~AllBytes(buf, p, p + WidthOf(buf[p]) - 1)
    THEN NoElement
    ELSE LET iw == WidthOf(buf[p])
             sz == DecodeVint(buf, p + iw)
             e  == IF sz.ok THEN PayloadEnd(buf, p + iw + sz.width, sz.value) ELSE 0
         IN  IF e = 0 THEN NoElement
             ELSE [ok |-> TRUE, id |-> SubSeq(buf, p, p + iw - 1),
                   from |-> p + iw + sz.width, to |-> e]

\* the elements that fill the entries p..q - 1 exactly, in order; ok is FALSE
\* when these entries are not a sequence of whole elements
RECURSIVE Elements(_, _, _)
Elements(buf, p, q) ==
    IF p = q THEN [ok |-> TRUE, list |-> <<>>]
    ELSE LET e == ElementAt(buf, p)
         IN  IF ~e.ok \/ e.to > q THEN [ok |-> FALSE, list |-> <<>>]
             ELSE LET rest == Elements(buf, e.to, q)
                  IN  [ok |-> rest.ok, list |-> << e >> \o rest.list]

Payload(buf, e) == SubSeq(buf, e.from, e.to - 1)

idEBML == << 26, 69, 223, 163 >>
idSegment == << 24, 83, 128, 103 >>
idSegmentInfo == << 21, 73, 169, 102 >>
idTracks == << 22, 84, 174, 107 >>
idTrackEntry == << 174 >>
idVideo == << 224 >>
idCluster == << 31, 67, 182, 117 >>
idTimecode == << 231 >>
idSimpleBlock == << 163 >>

MasterIds == {idEBML, idSegment, idSegmentInfo, idTracks, idTrackEntry, idVideo, idCluster}

\* the entries p..q - 1 are whole elements, and so are the payloads of the
\* master elements among them, all the way down
RECURSIVE WellNested(_, _, _)
WellNested(buf, p, q) ==
    LET es == Elements(buf, p, q)
    IN  /\ es.ok
        /\ \A k \in 1..Len(es.list) :
               es.list[k].id \in MasterIds =>
                   WellNested(buf, es.list[k].from, es.list[k].to)

Ids(es) == [k \in 1..Len(es.list) |-> es.list[k].id]

\* ------------------------------------------------------------- properties

MuxReturned == op = "fromImageArray" /\ pc = "returned"

\* the document is the EBML header followed by one Segment that holds
\* SegmentInfo, Tracks and one Cluster, and every element in it, at every
\* depth, has a size field equal to the length of its payload
Structured(doc) ==
    LET top == Elements(doc, 1, Len(doc) + 1)
    IN  /\ top.ok
        /\ Ids(top) = << idEBML, idSegment >>
        /\ LET seg == Elements(doc, top.list[2].from, top.list[2].to)
           IN  seg.ok /\ Ids(seg) = << idSegmentInfo, idTracks, idCluster >>
        /\ WellNested(doc, 1, Len(doc) + 1)

\* the children of the Cluster of a structured document
ClusterElements(doc) ==
    LET top == Elements(doc, 1, Len(doc) + 1)
        seg == Elements(doc, top.list[2].from, top.list[2].to)
    IN  Elements(doc, seg.list[3].from, seg.list[3].to)

\* the payloads of the SimpleBlocks of a structured document, in order
DocBlocks(doc) ==
    LET clu == ClusterElements(doc)
    IN  [k \in 1..(Len(clu.list) - 1) |-> Payload(doc, clu.list[k + 1])]

\* the 2-byte timecode field of a SimpleBlock payload, unsigned and signed
TimecodeField(payload) == payload[2] * 256 + payload[3]
Signed16(v) == IF v >= 32768 THEN v - 65536 ELSE v

\* "VP8 " occurs in the buffer (a run of zero bytes holds no part of it)
HasSignature(buf) ==
    \E j \in 1..(Len(buf) - 3) : SubSeq(buf, j, j + 3) = << 86, 80, 56, 32 >>

\* the 4 bytes at entries p..p+3, read little-endian and unsigned
LittleEndian32(buf, p) ==
    << buf[p + 3] \div 16,
       (buf[p + 3] % 16) * 2^24 + buf[p + 2] * 65536 + buf[p + 1] * 256 + buf[p] >>

\* 13 header bytes in which no "VP8 " starts, then "VP8 ", then L as 4 bytes
\* little-endian, then exactly L bytes
IsChunkBuffer(buf) ==
    /\ Len(buf) >= 21
    /\ AllBytes(buf, 1, 21)
    /\ SubSeq(buf, 14, 17) = << 86, 80, 56, 32 >>
    /\ \A j \in 1..13 : SubSeq(buf, j, j + 3) # << 86, 80, 56, 32 >>
    /\ LittleEndian32(buf, 18) = ByteLength(SubSeq(buf, 22, Len(buf)))

\* a frame of the call on which extractVP8Bitstream throws
HasBadFrame == \E k \in 1..Len(frames) : ~extractVP8Bitstream(frames[k]).ok

\* C1: decoding the bytes encodeVint(n) returns with the standard vint
\* decoder yields n, for every length n a byte buffer can have.
C1_VintRoundTrip ==
    (op = "encodeVint" /\ pc = "returned") =>
        LET d == DecodeVint(ret, 1) IN d.ok /\ d.value = arg

\* C2: encodeElement(id, data) is id, then the vint of len(data), then data:
\* its length is the sum of the three, the size decoded after the id is
\* len(data), and the bytes after the size field are data.
C2_ElementFraming ==
    (op = "encodeElement" /\ pc = "returned") =>
        LET n  == Len(arg.id)
            sz == DecodeVint(ret, n + 1)
        IN  /\ ByteLength(ret) =
                   NumAdd(NumOf(n + Len(encodeVint(ByteLength(arg.data)))),
                          ByteLength(arg.data))
            /\ SubSeq(ret, 1, n) = arg.id
            /\ sz.ok /\ sz.value = ByteLength(arg.data)
            /\ SubSeq(ret, n + sz.width + 1, Len(ret)) = arg.data

\* C3: every document fromImageArray returns parses as the EBML header and
\* one Segment that use up all its bytes, the Segment holds SegmentInfo,
\* Tracks and one Cluster, and every size field is the length of its payload.
C3_DocumentStructure == MuxReturned => Structured(blob.bytes)

\* C4: the timecode stored in the k-th SimpleBlock (k from 0) is
\* round(k * 1000 / fps).  Stated on the blocks whose timecode fits the
\* 2-byte field, so that a violation is one of the formula and not of the
\* field's width.
C4_TimecodeFormula ==
    (MuxReturned /\ Structured(blob.bytes)) =>
        LET b == DocBlocks(blob.bytes)
        IN  \A k \in 1..Len(b) :
                LET t == MathRound((k - 1) * 1000 * fps[2], fps[1])
                IN  (fps # MinValue /\ t <= 32767) => TimecodeField(b[k]) = t

\* C5: the timecode fields of the SimpleBlocks, read as signed 16-bit
\* integers in frame order, start at 0, never decrease, and each is the
\* block's relative timecode.
C5_TimecodeInvariant ==
    (MuxReturned /\ Structured(blob.bytes)) =>
        LET b     == DocBlocks(blob.bytes)
            tc(k) == Signed16(TimecodeField(b[k]))
        IN  /\ Len(b) >= 1 => tc(1) = 0
            /\ \A k \in 1..(Len(b) - 1) : tc(k) <= tc(k + 1)
            /\ \A k \in 1..Len(b) : tc(k) = Times(frameDurationMs, k - 1)

\* C6: on 13 header bytes, "VP8 ", L little-endian and L payload bytes,
\* extractVP8Bitstream returns exactly the L payload bytes, for every L >= 0.
C6_ExtractionCorrectness ==
    (op = "extractVP8Bitstream" /\ pc # "start" /\ IsChunkBuffer(arg)) =>
        pc = "returned" /\ ret = SubSeq(arg, 22, Len(arg))

\* C7: on a buffer in which "VP8 " occurs nowhere, extractVP8Bitstream
\* throws and returns no bitstream.
C7_ExtractionFailure ==
    (op = "extractVP8Bitstream" /\ pc # "start" /\ ~HasSignature(arg)) =>
        pc = "thrown" /\ ret = <<>>

\* C7 witness: the call has thrown on a buffer of 10 bytes or more that
\* holds the lossless tag "VP8L" and no "VP8 ".
C7_Witness ==
    /\ op = "extractVP8Bitstream" /\ pc = "thrown"
    /\ ~HasSignature(arg) /\ Len(arg) >= 10
    /\ \E j \in 1..(Len(arg) - 3) : SubSeq(arg, j, j + 3) = << 86, 80, 56, 76 >>

\* C8: when a frame of the list has no extractable bitstream, createWebM is
\* never called, no Blob and no document bytes are produced, and the call
\* can only end by throwing.
C8_NoPartialOutput ==
    (op = "fromImageArray" /\ HasBadFrame) =>
        /\ createWebMCalls = 0
        /\ blob.kind # "blob" /\ blob.bytes = <<>>
        /\ pc \in {"start", "map", "thrown"}
        /\ pc = "thrown" => blob.kind = "error"

\* C8 witness: the call has thrown at a frame that follows an extracted one.
C8_Witness ==
    /\ op = "fromImageArray" /\ pc = "thrown" /\ HasBadFrame
    /\ Len(vp8Frames) >= 1 /\ blob.kind = "error"

\* C9: the Cluster holds the cluster timecode element of value 0 and then
\* one SimpleBlock per frame, in frame order, each with track number 1, the
\* keyframe flag 0x80 and the bitstream extracted from its frame; 3 frames
\* at 10 fps have the timecodes 0, 100, 200.
C9_BlocksMirrorFrames ==
    MuxReturned =>
        /\ Structured(blob.bytes)
        /\ LET doc == blob.bytes
               clu == ClusterElements(doc)
           IN  /\ clu.ok
               /\ Len(clu.list) = Len(frames) + 1
               /\ clu.list[1].id = idTimecode
               /\ Payload(doc, clu.list[1]) = << 0, 0 >>
               /\ \A k \in 1..Len(frames) :
                      LET p == Payload(doc, clu.list[k + 1])
                      IN  /\ clu.list[k + 1].id = idSimpleBlock
                          /\ Len(p) >= 4 /\ p[1] = 129 /\ p[4] = 128
                          /\ SubSeq(p, 5, Len(p)) =
                                 extractVP8Bitstream(frames[k]).value
               /\ (Len(frames) = 3 /\ fps = << 10, 1 >>) =>
                      [k \in 1..3 |-> TimecodeField(DocBlocks(doc)[k])]
                          = << 0, 100, 200 >>

\* C10: a second call of fromImageArray with the same frames, fps, width and
\* height ends as the first did, with a byte-identical document.
C10_Determinism ==
    (op = "fromImageArray" /\ run = 2 /\ pc \in {"returned", "thrown"}) =>
        blob = firstBlob

\* C10 witness: the second call has returned a document of two or more frames.
C10_Witness ==
    /\ op = "fromImageArray" /\ run = 2 /\ pc = "returned"
    /\ Len(frames) >= 2 /\ blob.kind = "blob" /\ firstBlob.kind = "blob"

\* ------------------------------------------------------------- SegmentInfo and Tracks, read back

idDuration == << 68, 137 >>

\* the children of the k-th child of the Segment of a structured document
\* (1 SegmentInfo, 2 Tracks, 3 Cluster)
SegmentChild(doc, k) ==
    LET top == Elements(doc, 1, Len(doc) + 1)
        seg == Elements(doc, top.list[2].from, top.list[2].to)
    IN  Elements(doc, seg.list[k].from, seg.list[k].to)

\* the payloads of the children with the given id, in order
PayloadsOf(doc, es, id) ==
    LET ks == {k \in 1..Len(es.list) : es.list[k].id = id}
        nth[n \in 0..Len(es.list)] ==
            IF n = 0 THEN <<>>
            ELSE IF n \in ks THEN Append(nth[n - 1], Payload(doc, es.list[n]))
            ELSE nth[n - 1]
    IN  nth[Len(es.list)]

\* the 8 bytes stored in the Duration element of SegmentInfo
DurationBytes(doc) == PayloadsOf(doc, SegmentChild(doc, 1), idDuration)[1]

\* the fields of the double in 8 bytes: sign, biased exponent, and the 52
\* fraction bits as seven digits (4 bits, then six bytes)
DoubleFields(b) ==
    [sign |-> b[1] \div 128,
     exp  |-> (b[1] % 128) * 16 + (b[2] \div 16),
     frac |-> << b[2] % 16 >> \o SubSeq(b, 3, 8)]

DoubleIsZero(b) == DoubleFields(b).exp = 0 /\ DoubleFields(b).frac = ZeroFrac
DoubleIsNaN(b) == DoubleFields(b).exp = 2047 /\ DoubleFields(b).frac # ZeroFrac
DoubleIsInfinity(b) ==
    /\ DoubleFields(b).sign = 0
    /\ DoubleFields(b).exp = 2047 /\ DoubleFields(b).frac = ZeroFrac

\* C11: muxing an empty frame list, at every positive fps, width and height,
\* throws nothing and returns a structured document whose Cluster holds the
\* cluster timecode element alone, no SimpleBlock, and whose declared
\* duration is 0.
C11_EmptyInput ==
    (op = "fromImageArray" /\ frames = <<>>) =>
        /\ pc # "thrown"
        /\ pc = "returned" =>
               /\ Structured(blob.bytes)
               /\ Ids(ClusterElements(blob.bytes)) = << idTimecode >>
               /\ Payload(blob.bytes, ClusterElements(blob.bytes).list[1]) = << 0, 0 >>
               /\ DoubleIsZero(DurationBytes(blob.bytes))

\* ------------------------------------------------------------- doubles, read back

\* Whole numbers too long for one integer are held as their digits in base
\* 65536, least digit first.
Limbs(n) == << n % 65536, n \div 65536 >>

\* x * m + carry for a factor m of at most 1000
RECURSIVE MulSmall(_, _, _)
MulSmall(x, m, carry) ==
    IF x = <<>> THEN (IF carry = 0 THEN <<>> ELSE << carry >>)
    ELSE LET v == x[1] * m + carry
         IN  << v % 65536 >> \o MulSmall(Tail(x), m, v \div 65536)

\* x + c
RECURSIVE AddSmall(_, _)
AddSmall(x, c) ==
    IF c = 0 THEN x
    ELSE IF x = <<>> THEN << c >>
    ELSE << (x[1] + c) % 65536 >> \o AddSmall(Tail(x), (x[1] + c) \div 65536)

\* x * 2^k
RECURSIVE Pow2Times(_, _)
Pow2Times(x, k) ==
    IF k >= 8 THEN Pow2Times(MulSmall(x, 256, 0), k - 8) ELSE MulSmall(x, 2^k, 0)

\* x >= y
LimbsGE(x, y) ==
    LET n     == IF Len(x) > Len(y) THEN Len(x) ELSE Len(y)
        X(i)  == IF i <= Len(x) THEN x[i] ELSE 0
        Y(i)  == IF i <= Len(y) THEN y[i] ELSE 0
        diffs == {i \in 1..n : X(i) # Y(i)}
    IN  diffs = {} \/ LET t == CHOOSE i \in diffs : \A j \in diffs : j <= i
                      IN  X(t) > Y(t)

\* the 53-bit significand of a normal double, from its fraction digits
Significand(frac) ==
    << frac[6] * 256 + frac[7], frac[4] * 256 + frac[5],
       frac[2] * 256 + frac[3], 16 + frac[1] >>

\* the 8 bytes b hold the double nearest to num / den (ties to the even
\* significand), for whole numbers 0 < num, 0 < den <= 1000 and a quotient
\* below 2^53.  With M the significand and k = 1075 - exponent the double is
\* M / 2^k: it is nearest when 4 den M and 4 num 2^k differ by 2 den at most
\* (by den at most from above when M is a power of two, where the doubles
\* below lie twice as close)
NearestDouble(b, num, den) ==
    LET f    == DoubleFields(b)
        k    == 1075 - f.exp
        x    == MulSmall(Significand(f.frac), 4 * den, 0)
        y    == Pow2Times(MulSmall(Limbs(num), 4, 0), k)
        down == IF f.frac = ZeroFrac THEN den ELSE 2 * den
        even == b[8] % 2 = 0
    IN  /\ f.sign = 0 /\ f.exp \in 1..1075
        /\ LimbsGE(AddSmall(x, 2 * den), y)
        /\ LimbsGE(AddSmall(y, down), x)
        /\ (x # y /\ (AddSmall(x, 2 * den) = y \/ AddSmall(y, down) = x)) => even

\* round(1000 / fps) is r: r - 1/2 <= 1000 / fps < r + 1/2
IsRounded(r, f) ==
    /\ (2 * r - 1) * f[1] <= 2000 * f[2]
    /\ 2000 * f[2] < (2 * r + 1) * f[1]

\* C12: the double stored in the Duration element is
\* frameCount * round(1000 / fps) / 1000 seconds: 0 for no frame, else the
\* double nearest to that quotient, which is Infinity when 1000 / fps is
\* beyond the largest number; for 3 frames at fps 10 it is 0.3, the bytes
\* 3f d3 33 33 33 33 33 33.
C12_DeclaredDuration ==
    (MuxReturned /\ Structured(blob.bytes)) =>
        LET d == DurationBytes(blob.bytes)
            n == Len(frames)
        IN  /\ Len(d) = 8
            /\ n = 0 => DoubleIsZero(d)
            /\ (n > 0 /\ fps = MinValue) => DoubleIsInfinity(d)
            /\ (n > 0 /\ fps # MinValue) =>
                   \E r \in 0..(1000 * fps[2]) :
                       /\ IsRounded(r, fps)
                       /\ IF r = 0 THEN DoubleIsZero(d)
                          ELSE NearestDouble(d, n * r, 1000)
            /\ (n = 3 /\ fps = << 10, 1 >>) =>
                   d = << 63, 211, 51, 51, 51, 51, 51, 51 >>

\* ------------------------------------------------------------- the track, read back

idTrackNumber == << 215 >>
idFlagLacing == << 156 >>
idTrackType == << 131 >>
idCodecID == << 134 >>
idPixelWidth == << 176 >>
idPixelHeight == << 186 >>

\* the children of the k-th of the elements es
ChildrenOf(doc, es, k) == Elements(doc, es.list[k].from, es.list[k].to)

\* an unsigned integer stored big-endian
UintOf(bytes) == BigEndian(bytes, << 0, 0 >>)

\* C13: Tracks holds exactly one TrackEntry, with track number 1, track type
\* 1, lacing flag 0, codec id "V_VP8" and one video element whose PixelWidth
\* and PixelHeight, read back big-endian, are the width and the height passed
\* to fromImageArray, for every positive width and height.
C13_TrackDescriptor ==
    (MuxReturned /\ Structured(blob.bytes)) =>
        LET doc == blob.bytes
            trs == SegmentChild(doc, 2)
        IN  /\ trs.ok /\ Ids(trs) = << idTrackEntry >>
            /\ LET te  == ChildrenOf(doc, trs, 1)
                   one(id) == PayloadsOf(doc, te, id)
               IN  /\ te.ok
                   /\ Len(one(idTrackNumber)) = 1
                   /\ UintOf(one(idTrackNumber)[1]) = << 0, 1 >>
                   /\ Len(one(idTrackType)) = 1
                   /\ UintOf(one(idTrackType)[1]) = << 0, 1 >>
                   /\ Len(one(idFlagLacing)) = 1
                   /\ UintOf(one(idFlagLacing)[1]) = << 0, 0 >>
                   /\ one(idCodecID) = << << 86, 95, 86, 80, 56 >> >>
                   /\ Len(one(idVideo)) = 1
                   /\ LET k  == CHOOSE i \in 1..Len(te.list) : te.list[i].id = idVideo
                          vd == ChildrenOf(doc, te, k)
                      IN  /\ vd.ok
                          /\ Len(PayloadsOf(doc, vd, idPixelWidth)) = 1
                          /\ Len(PayloadsOf(doc, vd, idPixelHeight)) = 1
                          /\ UintOf(PayloadsOf(doc, vd, idPixelWidth)[1]) = NumOf(width)
                          /\ UintOf(PayloadsOf(doc, vd, idPixelHeight)[1]) = NumOf(height)

\* ------------------------------------------------------------- the vint, byte by byte

VintReturned == op = "encodeVint" /\ pc = "returned"

\* 2^e for 0 <= e <= 56
Pow2(e) == << 2^(IF e > 28 THEN e - 28 ELSE 0) * (IF e >= 28 THEN 1 ELSE 0),
              IF e >= 28 THEN 0 ELSE 2^e >>

\* value < 2^(7 l) - 1
FitsLength(value, l) == ~NumGE(NumAdd(value, << 0, 1 >>), Pow2(7 * l))

\* C14: encodeVint returns exactly L bytes, L the least of 1..8 with
\* value < 2^(7 L) - 1, and 8 when there is none; 0 is the one byte 0x80,
\* 126 takes 1 byte, 127 and 16382 take 2, 16383 takes 3.
C14_VintLength ==
    VintReturned =>
        /\ Len(ret) \in 1..8
        /\ Len(ret) < 8 => FitsLength(arg, Len(ret))
        /\ \A l \in 1..(Len(ret) - 1) : ~FitsLength(arg, l)
        /\ arg = << 0, 0 >> => ret = << 128 >>
        /\ arg = << 0, 126 >> => Len(ret) = 1
        /\ arg \in {<< 0, 127 >>, << 0, 16382 >>} => Len(ret) = 2
        /\ arg = << 0, 16383 >> => Len(ret) = 3

\* C14 witness: 127, the first value that does not fit one byte, has come
\* back as two bytes, and a value of 2^53 - 1 as eight.
C14_Witness ==
    /\ VintReturned
    /\ \/ arg = << 0, 127 >> /\ Len(ret) = 2
       \/ arg = << 2^25 - 1, Base - 1 >> /\ Len(ret) = 8

\* C15: for 0 <= value < 2^56 - 1 the L bytes encodeVint returns are value
\* written big-endian in L bytes with bit 8 - L of byte 0 set: read as one
\* number they are value + 2^(7 L), also for values of 2^31 and more.
C15_VintValueBytes ==
    (VintReturned /\ FitsLength(arg, 8)) =>
        /\ AllBytes(ret, 1, Len(ret))
        /\ UintOf(ret) = NumAdd(arg, Pow2(7 * Len(ret)))

\* C16: for 0 <= value <= 2^31 - 1 the first byte of encodeVint(value) has
\* exactly L - 1 zero bits before its first 1 bit, L the number of bytes
\* returned; the value's own bits lie below the marker bit, so that the
\* bytes without the marker are the value; and the bits below the marker
\* are never all 1.
C16_VintMarker ==
    (VintReturned /\ ~NumGE(arg, << 8, 0 >>)) =>
        LET L == Len(ret)
        IN  /\ AllBytes(ret, 1, L)
            /\ WidthOf(ret[1]) = L
            /\ UintOf(<< ret[1] - 2^(8 - L) >> \o Tail(ret)) = arg
            /\ UintOf(ret) # NumAdd(Pow2Minus1(7 * L), Pow2(7 * L))

\* C16 witness: 2^31 - 1, the largest value of the range, has come back as
\* five bytes, and 126, the largest value of one byte, as 0xfe.
C16_Witness ==
    /\ VintReturned
    /\ \/ arg = << 7, Base - 1 >> /\ Len(ret) = 5
       \/ arg = << 0, 126 >> /\ ret = << 254 >>

\* ------------------------------------------------------------- the scan, from outside

ExtractDone == op = "extractVP8Bitstream" /\ pc # "start"

\* the byte index of entry j of buf
IndexOf(buf, j) == ByteLength(SubSeq(buf, 1, j - 1))

\* "VP8 " starts at entry j
OccursAt(buf, j) ==
    j + 3 <= Len(buf) /\ SubSeq(buf, j, j + 3) = << 86, 80, 56, 32 >>

\* the entries at which "VP8 " starts at a byte index i <= n - 10
EarlyOccurrences(buf) ==
    {j \in 1..Len(buf) :
        /\ OccursAt(buf, j)
        /\ NumGE(ByteLength(buf), NumAdd(IndexOf(buf, j), << 0, 10 >>))}

\* C17: extractVP8Bitstream tests the signature at the start indices i with
\* 0 <= i <= n - 10 only: each of the 8 reads at i..i+7 it can make there
\* is of an index below n, it returns exactly when "VP8 " starts at such
\* an index, and it throws on a buffer shorter than 10 bytes and on one
\* whose occurrences of "VP8 " all start after n - 10.
C17_BoundedScan ==
    ExtractDone =>
        /\ \A j \in 1..Len(arg) :
               (arg[j] >= 0 /\ inScanRange(IndexOf(arg, j), ByteLength(arg))) =>
                   \A d \in 0..7 : ByteFrom(arg, j, d) # -1
        /\ (pc = "returned") = (EarlyOccurrences(arg) # {})
        /\ (pc = "thrown") = (EarlyOccurrences(arg) = {})
        /\ ~NumGE(ByteLength(arg), << 0, 10 >>) => pc = "thrown"

\* C17 witness: the call has thrown on a buffer of 10 bytes or more in which
\* "VP8 " does occur, after index n - 10.
C17_Witness ==
    /\ ExtractDone /\ pc = "thrown"
    /\ HasSignature(arg) /\ NumGE(ByteLength(arg), << 0, 10 >>)

\* the entry of the first occurrence the scan can reach
FirstEarly(buf) ==
    CHOOSE j \in EarlyOccurrences(buf) : \A m \in EarlyOccurrences(buf) : j <= m

\* C18: when the signature is found at index i, the bitstream returned
\* starts at index i + 8 and its length is the chunk size, the bytes
\* i+4..i+7 read little-endian and unsigned, also when that size exceeds
\* the bytes left in the buffer or has its top bit set.
C18_ExactSliceLength ==
    (ExtractDone /\ pc = "returned") =>
        LET j == FirstEarly(arg)
        IN  /\ AllBytes(arg, j + 4, j + 7)
            /\ ByteLength(ret) = LittleEndian32(arg, j + 4)
            /\ ret = SubSeq(arg, j + 8, j + 7 + Len(ret))

\* ------------------------------------------------------------- the block and the running timecode

\* C19: for every bitstream b and timecode t in 0..32767,
\* createSimpleBlock(b, t) is one element with the id 0xA3 whose payload is
\* 0x81, t in 2 bytes big-endian, 0x80 and then b unchanged, and whose
\* declared size is 4 + len(b).
C19_SimpleBlockLayout ==
    (op = "createSimpleBlock" /\ pc = "returned") =>
        LET b == arg.vp8Frame
            t == arg.timecode
            e == ElementAt(ret, 1)
        IN  /\ SubSeq(ret, 1, 1) = << 163 >>
            /\ DecodeVint(ret, 2).ok
            /\ DecodeVint(ret, 2).value = NumAdd(<< 0, 4 >>, ByteLength(b))
            /\ e.ok /\ e.id = << 163 >> /\ e.to = Len(ret) + 1
            /\ Payload(ret, e) = << 129, t \div 256, t % 256, 128 >> \o b

\* k * d for a count k and a frame duration d that is finite or Infinity; the
\* timecode of frame 0 is 0
FrameTimecode(k, d) == IF k = 0 THEN 0 ELSE IF d = Infinity THEN Infinity ELSE k * d

\* C20: fromImageArray computes frameDurationMs = round(1000 / fps) once, and
\* the timecode handed to createSimpleBlock for the k-th frame (k from 0) is
\* k * frameDurationMs: the running timecode starts at 0 and grows by
\* frameDurationMs with every frame.
C20_RunningTimecode ==
    (op = "fromImageArray" /\ pc \in {"map", "loop", "returned"}) =>
        /\ IF fps = MinValue THEN frameDurationMs = Infinity
           ELSE frameDurationMs >= 0 /\ IsRounded(frameDurationMs, fps)
        /\ pc \in {"loop", "returned"} =>
               /\ timecode = FrameTimecode(Len(simpleBlocks), frameDurationMs)
               /\ \A k \in 1..Len(simpleBlocks) :
                      simpleBlocks[k] =
                          createSimpleBlock(vp8Frames[k],
                                            FrameTimecode(k - 1, frameDurationMs))

\* C20 witness: the loop has handed three frames to createSimpleBlock at 24
\* frames per second, where 1000 / fps is no whole number.
C20_Witness ==
    /\ op = "fromImageArray" /\ pc = "loop"
    /\ fps = << 24, 1 >> /\ frameDurationMs = 42
    /\ Len(simpleBlocks) = 3 /\ timecode = 126

\* ------------------------------------------------------------- reading past the sizes of the masters

\* A reader that does not rely on the size fields of the Segment and of the
\* Cluster, as a reader of a stream does not: it finds an element by its id
\* and reads the Cluster's children up to the end of the document.

\* the entries at which the bytes pat start
Occurrences(doc, pat) ==
    {j \in 1..(Len(doc) - Len(pat) + 1) : SubSeq(doc, j, j + Len(pat) - 1) = pat}

Least(js) == CHOOSE j \in js : \A m \in js : j <= m

\* the children of the first Cluster: they start with the Timecode element,
\* after the id and a size field of 1 to 8 bytes, and end with the document
StreamCluster(doc) ==
    LET ps    == Occurrences(doc, idCluster)
        p     == Least(ps)
        heads == {j \in (p + 5)..(p + 12) :
                     /\ ElementAt(doc, j).ok
                     /\ ElementAt(doc, j).id = idTimecode
                     /\ Elements(doc, j, Len(doc) + 1).ok}
    IN  IF ps = {} \/ heads = {} THEN [ok |-> FALSE, list |-> <<>>]
        ELSE Elements(doc, Least(heads), Len(doc) + 1)

\* the payloads of the children of the Cluster after the Timecode element
StreamBlocks(doc) ==
    LET clu == StreamCluster(doc)
    IN  [k \in 1..(Len(clu.list) - 1) |-> Payload(doc, clu.list[k + 1])]

\* the TrackNumber payloads of the TrackEntry elements of the first Tracks
StreamTrackNumbers(doc) ==
    LET ps  == Occurrences(doc, idTracks)
        trs == ElementAt(doc, Least(ps))
        es  == Elements(doc, trs.from, trs.to)
        ks  == {k \in 1..Len(es.list) : es.list[k].id = idTrackEntry}
        nth[n \in 0..Len(es.list)] ==
            IF n = 0 THEN <<>>
            ELSE IF n \in ks
                 THEN nth[n - 1] \o PayloadsOf(doc, ChildrenOf(doc, es, n), idTrackNumber)
                 ELSE nth[n - 1]
    IN  IF ps = {} \/ ~trs.ok \/ ~es.ok THEN <<>> ELSE nth[Len(es.list)]

\* ------------------------------------------------------------- timecodes beyond the field

\* the frames k (from 1) of the call whose timecode (k - 1) * frameDurationMs
\* lies in 32768..2^31 - 1
LateFrames ==
    {k \in 1..Len(frames) :
        /\ frameDurationMs # Infinity
        /\ (k - 1) * frameDurationMs >= 32768
        /\ (k - 1) * frameDurationMs <= 2147483647}

\* C21: no timecode makes the muxer fail or start a second Cluster: a call
\* throws only on a frame without a bitstream, and the document it returns
\* has one Cluster, whose children are the Timecode element and one
\* SimpleBlock per frame; the block of every frame whose timecode T lies in
\* 32768..2^31 - 1 holds T mod 65536 in its 2-byte field, which read as a
\* signed 16-bit integer is not T.
C21_TimecodeWraps ==
    /\ (op = "fromImageArray" /\ pc = "thrown") => HasBadFrame
    /\ MuxReturned =>
           LET clu == StreamCluster(blob.bytes)
               b   == StreamBlocks(blob.bytes)
           IN  /\ Cardinality(Occurrences(blob.bytes, idCluster)) = 1
               /\ clu.ok
               /\ Len(b) = Len(frames)
               /\ \A k \in 1..Len(b) : clu.list[k + 1].id = idSimpleBlock
               /\ \A k \in LateFrames :
                      LET T == (k - 1) * frameDurationMs
                      IN  /\ TimecodeField(b[k]) = T % 65536
                          /\ Signed16(TimecodeField(b[k])) # T

\* C21 witness: a document of three frames at 1/64 frame per second has been
\* returned: the timecodes 64000 and 128000 are stored as 64000 (read as
\* -1536) and 62464.
C21_Witness ==
    /\ MuxReturned
    /\ LateFrames = {2, 3}
    /\ TimecodeField(StreamBlocks(blob.bytes)[2]) = 64000
    /\ TimecodeField(StreamBlocks(blob.bytes)[3]) = 62464

\* ------------------------------------------------------------- the track of the blocks

\* C22: in every document the muxer returns, Tracks holds one TrackEntry
\* with the TrackNumber 1, and every SimpleBlock starts with the byte 0x81,
\* the vint of that same track number.
C22_TrackNumberAgreement ==
    MuxReturned =>
        LET doc == blob.bytes
            tn  == StreamTrackNumbers(doc)
            b   == StreamBlocks(doc)
        IN  /\ Len(tn) = 1
            /\ UintOf(tn[1]) = << 0, 1 >>
            /\ Len(b) = Len(frames)
            /\ \A k \in 1..Len(b) :
                   /\ b[k][1] = 129
                   /\ DecodeVint(b[k], 1).ok
                   /\ DecodeVint(b[k], 1).width = 1
                   /\ DecodeVint(b[k], 1).value = UintOf(tn[1])

\* C22 witness: a document of two blocks or more has been returned.
C22_Witness ==
    /\ MuxReturned
    /\ Len(StreamBlocks(blob.bytes)) >= 2
    /\ StreamTrackNumbers(blob.bytes) = << << 1 >> >>

\* ------------------------------------------------------------- the inputs are read only

\* the bitstreams taken so far are the bytes of their frames' chunks
ViewsIntact ==
    op = "fromImageArray" =>
        /\ Len(vp8Frames) <= Len(frames)
        /\ \A k \in 1..Len(vp8Frames) :
               /\ extractVP8Bitstream(frames[k]).ok
               /\ vp8Frames[k] = extractVP8Bitstream(frames[k]).value

\* C23: no step of a mux call, and no step of a helper, writes to a buffer
\* it was given: the frames of the call and the argument of the helper keep
\* their bytes from the call to its return or its failure, and the bitstream
\* views taken from the frames keep showing the bytes of the frames' chunks.
C23_InputsReadOnly ==
    /\ [][op # "handleExportVideoWebM" => (frames' = frames /\ arg' = arg)]_vars
    /\ []ViewsIntact

\* C23 witness: a second call over the same list of two frames or more has
\* returned, with every bitstream still equal to its frame's chunk.
C23_Witness ==
    /\ MuxReturned /\ run = 2 /\ Len(frames) >= 2
    /\ Len(vp8Frames) = Len(frames) /\ ViewsIntact

\* ------------------------------------------------------------- the size of the document

\* the sum of 6 + len(bitstream) over the bitstreams: the fewest bytes their
\* SimpleBlocks take (id, a size field of one byte, track, timecode, flags)
RECURSIVE BlockBytes(_)
BlockBytes(vp8) ==
    IF vp8 = <<>> THEN << 0, 0 >>
    ELSE NumAdd(NumAdd(<< 0, 6 >>, ByteLength(Head(vp8))), BlockBytes(Tail(vp8)))

Exporting == op = "handleExportVideoWebM"
Exported == Exporting /\ pc = "done"

\* a call of the function named f has been made
Called(f) == \E i \in 1..Len(calls) : calls[i][1] = f

\* C24: the document muxed from an empty frame list has 139 bytes at every
\* fps, width and height, fewer than the 256 the exporter asks for, so the
\* exporter's guard rejects it: an export whose Blob the guard rejects does
\* not download it and does not report success, and whatever an export
\* downloads has a SimpleBlock.
C24_EmptyOutputRejected ==
    /\ (MuxReturned /\ frames = <<>>) =>
           /\ ByteLength(blob.bytes) = NumOf(139)
           /\ SizeGuard(blob)
    /\ (Exported /\ SizeGuard(blob)) =>
           /\ toastTitle # "Exported"
           /\ ~Called("downloadBlob")
    /\ (Exporting /\ Called("downloadBlob")) =>
           /\ blob.kind = "blob"
           /\ Len(StreamBlocks(blob.bytes)) >= 1

\* C24 witness: a document without frames has been returned for a width and
\* a height beyond 16 bits.
C24_Witness ==
    /\ MuxReturned /\ frames = <<>> /\ width = 65536 /\ height = 70000
    /\ SizeGuard(blob)

\* C26, as claimed: every document of one frame or more has 256 bytes or
\* more, so that the exporter's guard rejects a document exactly when it has
\* no SimpleBlock.
C26_SizeGuardOnlyEmpty ==
    MuxReturned =>
        /\ Len(frames) >= 1 => NumGE(ByteLength(blob.bytes), NumOf(256))
        /\ SizeGuard(blob) <=> Len(StreamBlocks(blob.bytes)) = 0

\* C26, amended: a document of N frames has 139 + the sum of
\* (6 + len(bitstream)) bytes or more.  The guard rejects every document
\* without SimpleBlock, accepts every document whose sum is 116 or more, and
\* rejects a document with SimpleBlocks exactly when the sum is 115 or less.
C26_SizeGuardBySum ==
    MuxReturned =>
        LET x == BlockBytes(vp8Frames)
        IN  /\ Len(StreamBlocks(blob.bytes)) = Len(frames)
            /\ NumGE(ByteLength(blob.bytes), NumAdd(NumOf(139), x))
            /\ Len(frames) = 0 => SizeGuard(blob)
            /\ NumGE(x, NumOf(116)) => ~SizeGuard(blob)
            /\ (Len(frames) >= 1 /\ ~NumGE(x, NumOf(116))) => SizeGuard(blob)

\* C26 witness: documents of one frame on both sides of the threshold have
\* been returned: a bitstream of 110 bytes, accepted, and the same call with
\* a bitstream of 109 bytes, rejected.
C26_Witness ==
    /\ MuxReturned /\ Len(frames) = 1
    /\ BlockBytes(vp8Frames) = NumOf(116)
    /\ ByteLength(blob.bytes) = NumOf(256) /\ ~SizeGuard(blob)

\* ------------------------------------------------------------- the duration and the blocks

\* the 8 bytes of the Duration element of the first SegmentInfo
StreamDuration(doc) ==
    LET si == ElementAt(doc, Least(Occurrences(doc, idSegmentInfo)))
    IN  PayloadsOf(doc, Elements(doc, si.from, si.to), idDuration)[1]

\* C27: in a document of N >= 1 frames whose last timecode
\* (N - 1) * frameDurationMs is 32767 or less, the declared duration is, in
\* milliseconds, the last SimpleBlock's timecode plus frameDurationMs, which
\* is N * frameDurationMs, and it is greater than every block's timecode
\* when frameDurationMs > 0.
C27_DurationMatchesBlocks ==
    (/\ MuxReturned /\ Len(frames) >= 1
     /\ \/ Len(frames) = 1
        \/ frameDurationMs # Infinity /\ (Len(frames) - 1) * frameDurationMs <= 32767) =>
        LET doc   == blob.bytes
            N     == Len(frames)
            d     == StreamDuration(doc)
            b     == StreamBlocks(doc)
            total == Plus(TimecodeField(b[N]), frameDurationMs)
        IN  /\ Len(b) = N /\ Len(d) = 8
            /\ total = Times(frameDurationMs, N)
            /\ IF total = Infinity THEN DoubleIsInfinity(d)
               ELSE IF total = 0 THEN DoubleIsZero(d)
               ELSE NearestDouble(d, total, 1000)
            /\ frameDurationMs # 0 =>
                   \A k \in 1..N :
                       total = Infinity \/ TimecodeField(b[k]) < total

\* C27 witness: a document of three frames at 24 frames per second has been
\* returned: the last timecode is 84 and the declared duration 0.126 s.
C27_Witness ==
    /\ MuxReturned /\ Len(frames) = 3 /\ frameDurationMs = 42
    /\ TimecodeField(StreamBlocks(blob.bytes)[3]) = 84
    /\ NearestDouble(StreamDuration(blob.bytes), 126, 1000)

\* ------------------------------------------------------------- the first match

\* the declared size of the chunk whose signature starts at entry j fits
\* the bytes that follow it
ChunkFits(buf, j) ==
    /\ AllBytes(buf, j + 4, j + 7)
    /\ LittleEndian32(buf, j + 4)[1] = 0
    /\ NumGE(ByteLength(SubSeq(buf, j + 8, Len(buf))), LittleEndian32(buf, j + 4))

\* C25: when "VP8 " starts at two or more indices of the scan range, the
\* call returns the chunk of the lowest one: the bytes from 8 after it, as
\* many as its size field says when the buffer holds them; no later
\* occurrence, inside or after that chunk, changes what is returned.
C25_FirstMatchWins ==
    (ExtractDone /\ Cardinality(EarlyOccurrences(arg)) >= 2) =>
        LET j == FirstEarly(arg)
        IN  /\ pc = "returned"
            /\ ret = SubSeq(arg, j + 8, j + 7 + Len(ret))
            /\ ChunkFits(arg, j) =>
                   ByteLength(ret) = LittleEndian32(arg, j + 4)

\* C25 witness: a chunk has been returned whose own data holds a second
\* "VP8 " within the scan range.
C25_Witness ==
    /\ ExtractDone /\ pc = "returned"
    /\ Cardinality(EarlyOccurrences(arg)) >= 2
    /\ ChunkFits(arg, FirstEarly(arg))
    /\ HasSignature(ret)

\* ------------------------------------------------------------- cancelling an export

\* C28: once Cancel has set cancelRef, which it can do while the loop awaits,
\* fromImageArray and downloadBlob are not called in that run, at most one
\* more frame is captured, and the run ends without a Blob.
C28_CancelStopsExport ==
    (Exporting /\ cancelRef) =>
        /\ ~Called("fromImageArray") /\ ~Called("downloadBlob")
        /\ blob = NoBlob
        /\ Len(frames) <= cancelledAt + 1
        /\ pc = "done" => toastTitle \in {"Export cancelled", "Video export failed"}

\* C28 witness: a run cancelled during the drawing of its third frame has
\* ended: that frame was still captured, and the toast says "Export
\* cancelled".
C28_Witness ==
    /\ Exported /\ cancelRef /\ cancelledAt = 2 /\ Len(frames) = 3
    /\ toastTitle = "Export cancelled"

\* ------------------------------------------------------------- the player after an export

\* the last two calls restore the player
Restored ==
    /\ Len(calls) >= 2
    /\ calls[Len(calls) - 1] = << "setCurrentTime", originalTime >>
    /\ calls[Len(calls)] = << "setIsPlaying", wasPlaying >>
    /\ currentTime = originalTime /\ isPlaying = wasPlaying

\* C29: however an export ends (downloaded, Error of the muxer, Blob too
\* small, cancelled, no stage, Error in the loop), its last two calls are
\* setCurrentTime(originalTime) and setIsPlaying(wasPlaying), the canvas is
\* not left in the document and the stage has its style back; originalTime
\* and wasPlaying are the player's state at entry (0 for a currentTime that
\* is no finite number) and do not change afterwards.
C29_RestoresPlayback ==
    /\ [](Exported => (Restored /\ canvas # "attached" /\ stageStyle = "original"))
    /\ [][(Exporting /\ pc = "start" /\ pc' # "start") =>
              /\ wasPlaying' = isPlaying
              /\ originalTime' = IF currentTime = NaN THEN 0 ELSE currentTime]_vars
    /\ [][(Exporting /\ pc # "start") =>
              (wasPlaying' = wasPlaying /\ originalTime' = originalTime)]_vars

\* C29 witness: an export that was playing at time 7 has downloaded its
\* video and has ended with the canvas removed.
C29_Witness ==
    /\ Exported /\ Called("downloadBlob") /\ toastTitle = "Exported"
    /\ wasPlaying /\ originalTime = 7 /\ Restored /\ canvas = "removed"

=============================================================================
